---- MODULE Spec2Model ----
(***************************************************************************)
(* Update ingestion and session-scoped dispatch of the Telegram/Gemini     *)
(* relay bot: src/app.py (long polling) and src/app_webhook.py (webhook).  *)
(*                                                                         *)
(* An Update is identified by its arrival index.  A handler is a coroutine *)
(* of the asyncio event loop: it runs without interruption from one await  *)
(* to the next, so every action below is one such synchronous stretch,     *)
(* ended by the await whose completion the next action models.             *)
(***************************************************************************)
EXTENDS Naturals, Sequences, FiniteSets

\* ------------------------------------------------------------------ bounds
MaxUpdates == 3
NumUsers == 2
\* Calls that may raise in one run.
MaxFaults == 1
\* Updates delivered in a run in which handlers overlap (SpecConcurrent).
MaxOverlap == 2
\* Updates waiting on the platform when the process starts (SpecBacklog).
MaxBacklog == 1

Users == 1..NumUsers
Ids == 1..MaxUpdates

\* --------------------------------------------------------------- constants
NoSession == 0            \* CHAT_SESSION_KEY not in context.user_data

Variants == {"polling", "webhook"}

\* Kinds of Update the platform delivers: the two registered commands, plain
\* text, any other command, and an event that carries no text.
Kinds == {"start", "new_chat", "text", "command", "non_text"}

\* update.message of a delivered Update: the Message, or None when the
\* Update carries its message elsewhere (update.edited_message of an edited
\* message, update.channel_post of a channel post).  The handler filters
\* test update.effective_message, so they match either way.
Messages == {"Message", "None"}

\* filters.TEXT and filters.COMMAND, as used by the handler registration.
FilterTEXT(kind) == kind \in {"start", "new_chat", "text", "command"}
FilterCOMMAND(kind) == kind \in {"start", "new_chat", "command"}

\* A message text.  name is the first_name the text was formatted with
\* (0: none); msg is the text around it.
\* The texts are those of the source, without their emoji.
Msg(m) == [msg |-> m, name |-> 0]

\* The welcome without the user's name.
HelloText_no_name(v, name) ==
    IF v = "polling"
    THEN Msg("Hello! I am an AI bot powered by Gemini and I remember our conversation. Ask me anything!")
    ELSE Msg("Hello! I am an AI bot powered by Gemini (webhook mode).")

\* start's welcome, formatted with update.effective_user.first_name.
HelloText(v, name) ==
    IF v = "polling"
    THEN [msg |-> "Hello, {user_name}! I am an AI bot powered by Gemini and I remember our conversation. Ask me anything!",
          name |-> name]
    ELSE [msg |-> "Hello, {user_name}! I am an AI bot powered by Gemini (webhook mode).",
          name |-> name]

ResetText(v) ==
    IF v = "polling"
    THEN Msg("Conversation memory has been reset! Starting a fresh chat now.")
    ELSE Msg("Conversation memory has been reset!")

AlreadyNewText(v) == Msg("You are already starting a new chat!")

NotConfiguredText(v) ==
    IF v = "polling"
    THEN Msg("AI service is not configured. Please check the GEMINI_API_KEY.")
    ELSE Msg("AI service not configured.")

NoSessionText(v) ==
    Msg("Could not start a chat session. Please ensure the AI client initialized correctly.")

ApiErrorText(v) ==
    IF v = "polling"
    THEN Msg("I apologize, but I received an error from the AI service. The API might be incorrectly configured.")
    ELSE Msg("Gemini is a bit tired right now. Please try again shortly!")

GenericErrorText(v) ==
    IF v = "polling"
    THEN Msg("Something went wrong while I was thinking. Try asking again!")
    ELSE Msg("Something went wrong, but I'm still here! Try again?")

EmptyPlaceholder == Msg("(Empty response from Gemini.)")

\* response.text of the backend: some text, or empty/absent.
ModelText == Msg("<response.text>")
EmptyText == Msg("")

VARIABLES
    variant,            \* which of the two programs runs
    ai_client,          \* "None" or "Client": the module-level ai_client
    loop_running,       \* the asyncio loop that runs the Application is running
    concurrent_updates, \* handlers of different Updates may overlap at awaits
    updates,            \* the Updates delivered so far, by arrival index
    update_queue,       \* application.update_queue (indices into updates)
    acked,              \* Updates the webhook endpoint has answered {"status": "ok"}
    pc,                 \* per Update: where its handler stands
    user_data,          \* per user: context.user_data.get(CHAT_SESSION_KEY)
    created,            \* Chat objects chats.create has returned so far
    chat_session,       \* per Update: handle_message's local chat_session
    pending,            \* per Update: the text of the reply_text being awaited
    ctx,                \* per Update: where that reply_text was called from
    busy,               \* the Updates whose synchronous send_message is running
    replies,            \* per Update: the texts reply_text has sent
    attempts,           \* per Update: the texts reply_text was called with
    typing,             \* per Update: send_chat_action calls made
    calls,              \* per Update: backend calls made, in order
    result,             \* per Update: how the exchange went
    epoch,              \* per user: new_chat handlers run so far
    seen,               \* per Update: epoch of its user at get_or_create_chat
    faults,             \* calls that have raised so far
    backlog             \* Updates sent before the process started, still on the platform

vars == <<variant, ai_client, loop_running, concurrent_updates, updates,
          update_queue, acked, pc, user_data, created, chat_session, pending,
          ctx, busy, replies, attempts, typing, calls, result, epoch, seen,
          faults, backlog>>

config == <<variant, ai_client, loop_running, concurrent_updates>>
ghost == <<calls, result, seen>>


\* --------------------------------------------------------- pure functions

\* get_or_create_chat that stores an entry before chats.create has returned:
\* a failed construction leaves the entry behind.
get_or_create_chat_stores_on_failure(client, ud, u, create) ==
    IF client = "None"
    THEN [store |-> ud, chat |-> NoSession, called |-> FALSE, raise |-> "none"]
    ELSE IF ud[u] = NoSession
         THEN IF create.raise = "none"
              THEN [store |-> [ud EXCEPT ![u] = create.chat],
                    chat |-> create.chat, called |-> TRUE, raise |-> "none"]
              ELSE [store |-> [ud EXCEPT ![u] = create.chat],
                    chat |-> NoSession, called |-> TRUE,
                    raise |-> create.raise]
         ELSE [store |-> ud, chat |-> ud[u], called |-> FALSE, raise |-> "none"]

\* get_or_create_chat over one store shared by all users: the new Chat is
\* stored for every user.
get_or_create_chat_shared(client, ud, u, create) ==
    IF client = "None"
    THEN [store |-> ud, chat |-> NoSession, called |-> FALSE, raise |-> "none"]
    ELSE IF ud[u] = NoSession
         THEN IF create.raise = "none"
              THEN [store |-> [x \in DOMAIN ud |-> create.chat],
                    chat |-> create.chat, called |-> TRUE, raise |-> "none"]
              ELSE [store |-> ud, chat |-> NoSession, called |-> TRUE,
                    raise |-> create.raise]
         ELSE [store |-> ud, chat |-> ud[u], called |-> FALSE, raise |-> "none"]

\* get_or_create_chat without the membership test: a Chat is constructed
\* and stored on every call.
get_or_create_chat_always_creates(client, ud, u, create) ==
    IF client = "None"
    THEN [store |-> ud, chat |-> NoSession, called |-> FALSE, raise |-> "none"]
    ELSE IF create.raise = "none"
         THEN [store |-> [ud EXCEPT ![u] = create.chat],
               chat |-> create.chat, called |-> TRUE, raise |-> "none"]
         ELSE [store |-> ud, chat |-> NoSession, called |-> TRUE,
               raise |-> create.raise]

\* get_or_create_chat that returns the new Chat without storing it.
get_or_create_chat_not_stored(client, ud, u, create) ==
    IF client = "None"
    THEN [store |-> ud, chat |-> NoSession, called |-> FALSE, raise |-> "none"]
    ELSE IF ud[u] = NoSession
         THEN IF create.raise = "none"
              THEN [store |-> ud, chat |-> create.chat, called |-> TRUE,
                    raise |-> "none"]
              ELSE [store |-> ud, chat |-> NoSession, called |-> TRUE,
                    raise |-> create.raise]
         ELSE [store |-> ud, chat |-> ud[u], called |-> FALSE, raise |-> "none"]

\* get_or_create_chat(context, user_id).  ud is context.user_data of every
\* user, create is what ai_client.chats.create would do if called:
\* [raise |-> "none", chat |-> the new Chat] or [raise |-> the exception].
\* Returns the store afterwards, the Chat returned (NoSession: None), whether
\* chats.create was called, and the exception that left the function.
get_or_create_chat(client, ud, u, create) ==
    IF client = "None"
    THEN [store |-> ud, chat |-> NoSession, called |-> FALSE, raise |-> "none"]
    ELSE IF ud[u] = NoSession
         THEN IF create.raise = "none"
              THEN [store |-> [ud EXCEPT ![u] = create.chat],
                    chat |-> create.chat, called |-> TRUE, raise |-> "none"]
              ELSE [store |-> ud, chat |-> NoSession, called |-> TRUE,
                    raise |-> create.raise]
         ELSE [store |-> ud, chat |-> ud[u], called |-> FALSE, raise |-> "none"]

\* new_chat that confirms the reset but leaves the session in place.
new_chat_handler_keeps(v, ud, u) ==
    IF ud[u] # NoSession
    THEN [store |-> ud, text |-> ResetText(v)]
    ELSE [store |-> ud, text |-> AlreadyNewText(v)]

\* new_chat with the two replies exchanged.
new_chat_handler_swapped(v, ud, u) ==
    IF ud[u] # NoSession
    THEN [store |-> [ud EXCEPT ![u] = NoSession], text |-> AlreadyNewText(v)]
    ELSE [store |-> ud, text |-> ResetText(v)]

\* new_chat's effect on the store and the text it replies with.
new_chat_handler(v, ud, u) ==
    IF ud[u] # NoSession
    THEN [store |-> [ud EXCEPT ![u] = NoSession], text |-> ResetText(v)]
    ELSE [store |-> ud, text |-> AlreadyNewText(v)]

\* handle_message without the ai_client check.
handle_message_entry_unchecked(client) == "send_chat_action"

\* handle_message up to its first await: the ai_client check.
\* "reply_text": the not-configured reply; "send_chat_action": go on.
handle_message_entry(client) ==
    IF client = "None" THEN "reply_text" ELSE "send_chat_action"

\* The try statement with the APIError clause replying the generic text.
handle_message_reply_no_api_clause(v, outcome) ==
    CASE outcome = "text" -> [text |-> ModelText, from |-> "try"]
      [] outcome = "empty" ->
            IF v = "polling"
            THEN [text |-> EmptyText, from |-> "try"]
            ELSE [text |-> EmptyPlaceholder, from |-> "try"]
      [] OTHER -> [text |-> GenericErrorText(v), from |-> "except"]

\* The try statement with every exception taken for a backend error.
handle_message_reply_broad_api_clause(v, outcome) ==
    CASE outcome = "text" -> [text |-> ModelText, from |-> "try"]
      [] outcome = "empty" ->
            IF v = "polling"
            THEN [text |-> EmptyText, from |-> "try"]
            ELSE [text |-> EmptyPlaceholder, from |-> "try"]
      [] OTHER -> [text |-> ApiErrorText(v), from |-> "except"]

\* The reply_text the try statement of handle_message makes once the
\* backend call has returned or raised.  outcome: "text", "empty"
\* (response.text empty or None), "api_error" (APIError), "error" (any
\* other exception).
\* from: "try" if reply_text is called in the try body, "except" if in a
\* handler of the try.
handle_message_reply(v, outcome) ==
    CASE outcome = "text" -> [text |-> ModelText, from |-> "try"]
      [] outcome = "empty" ->
            IF v = "polling"
            THEN [text |-> EmptyText, from |-> "try"]
            ELSE [text |-> EmptyPlaceholder, from |-> "try"]
      [] outcome = "api_error" -> [text |-> ApiErrorText(v), from |-> "except"]
      [] OTHER -> [text |-> GenericErrorText(v), from |-> "except"]

\* What a raised reply_text leads to: inside the try body the exception is a
\* telegram error, not an APIError, so "except Exception" replies with the
\* generic text; anywhere else it leaves the handler.
after_reply_raised(v, from) ==
    IF from = "try"
    THEN [pc |-> "reply_text", text |-> GenericErrorText(v), from |-> "except"]
    ELSE [pc |-> "escaped", text |-> EmptyText, from |-> "none"]

\* The registration with the message handler on filters.TEXT alone.
classify_no_command_filter(kind) ==
    IF kind = "start" THEN "start"
    ELSE IF kind = "new_chat" THEN "new_chat"
    ELSE IF FilterTEXT(kind) THEN "handle_message"
    ELSE "ignored"

\* The handler the Application binds an Update to (the first registered
\* handler whose filter matches), "ignored" if none matches.
classify(kind) ==
    IF kind = "start" THEN "start"
    ELSE IF kind = "new_chat" THEN "new_chat"
    ELSE IF FilterTEXT(kind) /\ ~FilterCOMMAND(kind) THEN "handle_message"
    ELSE "ignored"

\* A webhook view that processes the Update inline: it answers only when
\* no handler is running.
webhook_ready_inline(blocked, inflight) == ~blocked /\ ~inflight

\* drop_pending_updates of the run_polling call that runs the bot
\* (src/app.py:178): not passed, so the default.  The call of line 179,
\* which passes True, is reached only when the first call has returned,
\* that is when the bot has been stopped.
drop_pending_updates == FALSE

\* What the Updater retrieves next when b Updates waited on the platform
\* at start: with drop they are discarded, without they are delivered in
\* order before any new Update.
get_updates(b, drop) ==
    IF drop THEN [old |-> FALSE, backlog |-> 0]
    ELSE IF b > 0 THEN [old |-> TRUE, backlog |-> b - 1]
    ELSE [old |-> FALSE, backlog |-> 0]

\* An Application built with concurrent_updates(True): the next Update is
\* taken off the queue whatever is running.
may_dispatch_always(concurrent, inflight) == TRUE

\* The Application's update loop may take the next Update off the queue:
\* with concurrent_updates at any time, without only when no handler is
\* running.
may_dispatch(concurrent, inflight) == concurrent \/ ~inflight

\* The webhook view is a synchronous Flask view: it runs on the HTTP
\* server's thread and waits for nothing the event loop does.
webhook_ready(blocked, inflight) == TRUE

\* ------------------------------------------------------------------ state

Finished == {"done", "escaped", "ignored"}
Waiting == {"none", "queued"}
InFlight == {i \in Ids : pc[i] \notin (Finished \cup Waiting)}

\* Outcomes the transport can give an awaited call.
AwaitOutcomes == {"ok", "raise"}
SendOutcomes == {"text", "empty", "api_error", "error"}
CreateOutcomes == {"none", "api_error", "error"}

\* The outcomes of S a call can have now: it can raise only while fewer than
\* MaxFaults calls of the run have raised.
Raises(o) == o \in {"raise", "api_error", "error"}
Outcomes(S) == IF faults < MaxFaults THEN S ELSE {o \in S : ~Raises(o)}
Count(o) == faults' = IF Raises(o) THEN faults + 1 ELSE faults

InitCommon ==
    /\ variant \in Variants
    /\ ai_client \in {"None", "Client"}
    /\ loop_running \in (IF variant = "polling" THEN {TRUE} ELSE BOOLEAN)
    /\ updates = << >>
    /\ update_queue = << >>
    /\ acked = {}
    /\ pc = [i \in Ids |-> "none"]
    /\ user_data = [u \in Users |-> NoSession]
    /\ created = 0
    /\ chat_session = [i \in Ids |-> NoSession]
    /\ pending = [i \in Ids |-> EmptyText]
    /\ ctx = [i \in Ids |-> "none"]
    /\ busy = {}
    /\ replies = [i \in Ids |-> << >>]
    /\ attempts = [i \in Ids |-> << >>]
    /\ typing = [i \in Ids |-> 0]
    /\ calls = [i \in Ids |-> << >>]
    /\ result = [i \in Ids |-> "none"]
    /\ epoch = [u \in Users |-> 0]
    /\ seen = [i \in Ids |-> 0]
    /\ faults = 0

\* Application.builder().token(...).build(): concurrent_updates is left at
\* its default, so the Application awaits each handler before the next.
Init == InitCommon /\ concurrent_updates = FALSE /\ backlog = 0

\* The handlers called with overlapping lifetimes, as a caller that gathers
\* several handler coroutines on one loop does.
InitConcurrent == InitCommon /\ concurrent_updates = TRUE /\ backlog = 0

\* The polling bot started while Updates sent earlier wait on the platform.
InitBacklog ==
    /\ InitCommon
    /\ concurrent_updates = FALSE
    /\ backlog \in (IF variant = "polling" THEN 0..MaxBacklog ELSE {0})

\* Each program started by its own entrypoint: main() of src/app.py runs
\* the loop inside run_polling; the __main__ block of src/app_webhook.py
\* creates the start_webhook task on a loop and then blocks in
\* flask_app.run, so that loop never runs.
InitEntrypoint ==
    /\ InitCommon
    /\ concurrent_updates = FALSE
    /\ backlog = 0
    /\ loop_running = (variant = "polling")


\* ---------------------------------------------------------------- actions

\* The number of Updates a run delivers.
Limit == IF concurrent_updates THEN MaxOverlap ELSE MaxUpdates

\* The event loop can run a coroutine: it is running and no synchronous
\* call is holding it.
LoopFree == loop_running /\ busy = {}

\* The next Update arrives.  The program only ever compares user identities
\* for equality (through context.user_data), so users are numbered in the
\* order of their first Update.  old: the Update was sent to the bot before
\* the process started.  message: update.message.
Arrive(u, kind, old, message) ==
    /\ Len(updates) < Limit
    /\ \A w \in Users : w < u => \E k \in 1..Len(updates) : updates[k].user = w
    /\ updates' = Append(updates, [user |-> u, kind |-> kind, first_name |-> u,
                                    old |-> old, message |-> message])
    /\ update_queue' = Append(update_queue, Len(updates) + 1)
    /\ pc' = [pc EXCEPT ![Len(updates) + 1] = "queued"]

\* The polling adapter (application.run_polling): the Updater's polling
\* coroutine puts each Update it retrieves on update_queue, the Updates
\* that waited on the platform first.
run_polling ==
    /\ variant = "polling"
    /\ LoopFree
    /\ LET got == get_updates(backlog, drop_pending_updates) IN
           /\ \E u \in Users, kind \in Kinds, m \in Messages :
                 Arrive(u, kind, got.old, m)
           /\ backlog' = got.backlog
    /\ UNCHANGED <<config, acked, user_data, created, chat_session, pending,
                   ctx, busy, replies, attempts, typing, ghost, epoch, faults>>

\* POST /webhook: Update.de_json, update_queue.put_nowait, return ok.
webhook ==
    /\ variant = "webhook"
    /\ webhook_ready(busy # {}, InFlight # {})
    /\ \E u \in Users, kind \in Kinds, m \in Messages :
          Arrive(u, kind, FALSE, m)
    /\ acked' = acked \cup {Len(updates) + 1}
    /\ UNCHANGED <<config, backlog, user_data, created, chat_session, pending,
                   ctx, busy, replies, attempts, typing, ghost, epoch, faults>>

\* The Application takes the next Update off update_queue and binds it to
\* its handler; without concurrent_updates it does so only once the
\* previous Update's handler has returned or raised.
process_update ==
    /\ LoopFree
    /\ update_queue # << >>
    /\ may_dispatch(concurrent_updates, InFlight # {})
    /\ LET i == Head(update_queue) IN
           pc' = [pc EXCEPT ![i] = classify(updates[i].kind)]
    /\ update_queue' = Tail(update_queue)
    /\ UNCHANGED <<config, backlog, updates, acked, user_data, created, chat_session,
                   pending, ctx, busy, replies, attempts, typing, ghost, epoch, faults>>

\* reply_text(text) is called from `from` and awaited.
CallReply(i, text, from) ==
    /\ pc' = [pc EXCEPT ![i] = "reply_text"]
    /\ pending' = [pending EXCEPT ![i] = text]
    /\ ctx' = [ctx EXCEPT ![i] = from]
    /\ attempts' = [attempts EXCEPT ![i] = Append(@, text)]

\* reply_text is not called: evaluating update.message.reply_text (or
\* update.message.text) on None raises AttributeError, which leaves the
\* handler.
NoMessage(i) ==
    /\ pc' = [pc EXCEPT ![i] = "escaped"]
    /\ UNCHANGED <<pending, ctx, attempts>>

\* start: one reply_text with the welcome, outside any try.
start(i) ==
    /\ LoopFree
    /\ pc[i] = "start"
    /\ IF updates[i].message = "None"
       THEN NoMessage(i)
       ELSE CallReply(i, HelloText(variant, updates[i].first_name), "handler")
    /\ UNCHANGED <<config, backlog, updates, update_queue, acked, user_data, created,
                   chat_session, busy, replies, typing, ghost, epoch, faults>>

\* new_chat: delete the session if there is one, then one reply_text.
new_chat(i) ==
    /\ LoopFree
    /\ pc[i] = "new_chat"
    /\ LET r == new_chat_handler(variant, user_data, updates[i].user) IN
           /\ user_data' = r.store
           /\ IF updates[i].message = "None"
              THEN NoMessage(i)
              ELSE CallReply(i, r.text, "handler")
    /\ epoch' = [epoch EXCEPT ![updates[i].user] = @ + 1]
    /\ UNCHANGED <<config, backlog, updates, update_queue, acked, created,
                   chat_session, busy, replies, typing, ghost, faults>>

\* handle_message up to its first await.  Its first statement reads
\* update.message.text, before the ai_client check.
handle_message(i) ==
    /\ LoopFree
    /\ pc[i] = "handle_message"
    /\ IF updates[i].message = "None"
       THEN /\ NoMessage(i)
            /\ result' = [result EXCEPT ![i] = "no_message"]
            /\ UNCHANGED typing
       ELSE IF handle_message_entry(ai_client) = "reply_text"
       THEN /\ CallReply(i, NotConfiguredText(variant), "handler")
            /\ UNCHANGED <<typing, result>>
       ELSE /\ pc' = [pc EXCEPT ![i] = "send_chat_action"]
            /\ typing' = [typing EXCEPT ![i] = @ + 1]
            /\ UNCHANGED <<pending, ctx, attempts, result>>
    /\ UNCHANGED <<config, backlog, updates, update_queue, acked, user_data, created,
                   chat_session, busy, replies, calls, seen, epoch, faults>>

\* await context.bot.send_chat_action(...) completes.  The call stands
\* before the try: if it raises, the exception leaves handle_message.
send_chat_action(i) ==
    /\ LoopFree
    /\ pc[i] = "send_chat_action"
    /\ \E o \in Outcomes(AwaitOutcomes) :
          /\ Count(o)
          /\ IF o = "ok"
             THEN /\ pc' = [pc EXCEPT ![i] = "try"]
                  /\ UNCHANGED result
             ELSE /\ pc' = [pc EXCEPT ![i] = "escaped"]
                  /\ result' = [result EXCEPT ![i] = "typing_raised"]
    /\ UNCHANGED <<config, backlog, updates, update_queue, acked, user_data, created,
                   chat_session, pending, ctx, busy, replies, attempts,
                   typing, calls, epoch, seen>>

\* The try body up to the call of send_message: get_or_create_chat, the
\* None check (src/app.py only) and the synchronous call, which holds the
\* event loop until it returns.
try_body(i) ==
    /\ LoopFree
    /\ pc[i] = "try"
    /\ \E o \in (IF ai_client = "Client" /\ user_data[updates[i].user] = NoSession
                 THEN Outcomes(CreateOutcomes) ELSE {"none"}) :
         LET u == updates[i].user
             r == get_or_create_chat(ai_client, user_data, u,
                                     [raise |-> o, chat |-> created + 1])
             made == r.called /\ r.raise = "none"
             log == IF r.called THEN <<"chats.create">> ELSE << >>
         IN /\ Count(r.raise)
            /\ user_data' = r.store
            /\ created' = IF made THEN created + 1 ELSE created
            /\ chat_session' = [chat_session EXCEPT ![i] = r.chat]
            /\ seen' = [seen EXCEPT ![i] = epoch[u]]
            /\ IF r.raise # "none"
               THEN \* chats.create raised: the matching except clause replies
                    /\ CallReply(i, handle_message_reply(variant, r.raise).text, "except")
                    /\ result' = [result EXCEPT ![i] =
                            IF r.raise = "api_error" THEN "create_api_error"
                                                     ELSE "create_error"]
                    /\ calls' = [calls EXCEPT ![i] = @ \o log]
                    /\ UNCHANGED busy
               ELSE IF r.chat = NoSession
               THEN IF variant = "polling"
                    THEN \* "Could not start a chat session", then return
                         /\ CallReply(i, NoSessionText(variant), "try")
                         /\ result' = [result EXCEPT ![i] = "no_session"]
                         /\ calls' = [calls EXCEPT ![i] = @ \o log]
                         /\ UNCHANGED busy
                    ELSE \* None.send_message: AttributeError
                         /\ CallReply(i, GenericErrorText(variant), "except")
                         /\ result' = [result EXCEPT ![i] = "error"]
                         /\ calls' = [calls EXCEPT ![i] = @ \o log]
                         /\ UNCHANGED busy
               ELSE /\ pc' = [pc EXCEPT ![i] = "send_message"]
                    /\ busy' = {i}
                    /\ calls' = [calls EXCEPT ![i] = @ \o log \o <<"send_message">>]
                    /\ UNCHANGED <<pending, ctx, attempts, result>>
    /\ UNCHANGED <<config, backlog, updates, update_queue, acked, replies, typing, epoch>>

\* chat_session.send_message(user_message) returns or raises; the handler
\* goes on to the reply_text of the try body or of the except clause.
send_message(i) ==
    /\ loop_running
    /\ busy = {i}
    /\ pc[i] = "send_message"
    /\ \E o \in Outcomes(SendOutcomes) :
          LET r == handle_message_reply(variant, o) IN
          /\ Count(o)
          /\ CallReply(i, r.text, r.from)
          /\ result' = [result EXCEPT ![i] = o]
    /\ busy' = {}
    /\ UNCHANGED <<config, backlog, updates, update_queue, acked, user_data, created,
                   chat_session, replies, typing, calls, epoch, seen>>

\* An awaited reply_text completes: the message is sent and the call
\* returns, or nothing is sent and the call raises.
reply_text(i) ==
    /\ LoopFree
    /\ pc[i] = "reply_text"
    /\ \E o \in Outcomes(AwaitOutcomes) :
          /\ Count(o)
          /\ IF o = "ok"
             THEN /\ replies' = [replies EXCEPT ![i] = Append(@, pending[i])]
                  /\ pc' = [pc EXCEPT ![i] = "done"]
                  /\ UNCHANGED <<pending, ctx, attempts>>
             ELSE LET r == after_reply_raised(variant, ctx[i]) IN
                  /\ IF r.pc = "reply_text"
                     THEN CallReply(i, r.text, r.from)
                     ELSE /\ pc' = [pc EXCEPT ![i] = r.pc]
                          /\ UNCHANGED <<pending, ctx, attempts>>
                  /\ UNCHANGED replies
    /\ UNCHANGED <<config, backlog, updates, update_queue, acked, user_data, created,
                   chat_session, busy, typing, ghost, epoch>>

Next ==
    \/ run_polling
    \/ webhook
    \/ process_update
    \/ \E i \in Ids : start(i)
    \/ \E i \in Ids : new_chat(i)
    \/ \E i \in Ids : handle_message(i)
    \/ \E i \in Ids : send_chat_action(i)
    \/ \E i \in Ids : try_body(i)
    \/ \E i \in Ids : send_message(i)
    \/ \E i \in Ids : reply_text(i)

Spec == Init /\ [][Next]_vars

SpecConcurrent == InitConcurrent /\ [][Next]_vars

SpecBacklog == InitBacklog /\ [][Next]_vars

\* Every step of the event loop that stays possible is eventually taken; the
\* platform is under no obligation to send Updates.
LoopStep ==
    \/ process_update
    \/ \E i \in Ids : start(i) \/ new_chat(i) \/ handle_message(i)
    \/ \E i \in Ids : send_chat_action(i) \/ try_body(i)
    \/ \E i \in Ids : send_message(i) \/ reply_text(i)

SpecEntrypoint == InitEntrypoint /\ [][Next]_vars /\ WF_vars(LoopStep)


\* ----------------------------------------------------------------- claims

Arrived == 1..Len(updates)
UserOf(i) == updates[i].user
Handler(i) == classify(updates[i].kind)
Range(q) == {q[k] : k \in 1..Len(q)}
\* get_or_create_chat has returned a Chat to the handler of Update i.
Obtained(i) == chat_session[i] # NoSession
\* chats.create returned a new Chat to the handler of Update i.
Constructed(i) == Obtained(i) /\ "chats.create" \in Range(calls[i])
\* Updates i and j are of one user, with no new_chat of that user run
\* between their get_or_create_chat calls.
SameEpoch(i, j) == UserOf(i) = UserOf(j) /\ seen[i] = seen[j]
\* The Updates whose handle_message has run get_or_create_chat: it has
\* passed the read of update.message, the ai_client check and the typing
\* indicator.
PastCreate(i) ==
    /\ Handler(i) = "handle_message"
    /\ updates[i].message = "Message"
    /\ ai_client = "Client"
    /\ pc[i] \in {"send_message", "reply_text", "done", "escaped"}
    /\ result[i] # "typing_raised"

\* C1: every Update dispatched to a handler has exactly one reply sent once
\* its handler has ended, whatever failed on the way; an Update that matches
\* no handler has none; no Update ever has more than one.  (An Update one of
\* whose reply_text calls the transport refused is left aside in the second
\* clause: the statement is refuted without it.)
C1_ExactlyOneReply ==
    \A i \in Arrived :
        /\ Len(replies[i]) <= 1
        /\ (pc[i] \in {"done", "escaped"} /\ Len(attempts[i]) = Len(replies[i]))
              => Len(replies[i]) = 1
        /\ pc[i] = "ignored" => Len(replies[i]) = 0

\* C2: with handle_message events of one user overlapping while no session
\* exists, at most one of them constructs a Session, and all that obtain a
\* Session between the same two resets obtain the same one, which is the
\* one the store holds until the next reset.
C2_OneSessionPerUser ==
    \A i \in Arrived : \A j \in Arrived :
        (i # j /\ SameEpoch(i, j) /\ Obtained(i) /\ Obtained(j)) =>
            /\ chat_session[i] = chat_session[j]
            /\ ~(Constructed(i) /\ Constructed(j))
            /\ (epoch[UserOf(i)] = seen[i] => user_data[UserOf(i)] = chat_session[i])

\* Two handle_message events of one user are in flight at once: the first
\* has constructed the Session and awaits its reply, the second, which began
\* while no session existed, is in its backend call on that same Session.
C2_Witness ==
    \E i \in Arrived : \E j \in Arrived :
        /\ i # j /\ UserOf(i) = UserOf(j)
        /\ pc[i] = "reply_text" /\ pc[j] = "send_message"
        /\ Constructed(i)
        /\ calls[j] = <<"send_message">>
        /\ chat_session[j] = chat_session[i]

\* C3: a get_or_create_chat call made when an earlier call has returned a
\* Session for the user and no new_chat has run since returns that same
\* Session, constructs nothing and leaves the store as it is.
C3_SecondCallSameSession ==
    [][\A i \in Arrived : \A j \in Arrived :
         (/\ pc[i] = "try" /\ pc'[i] # "try"
          /\ j # i /\ UserOf(j) = UserOf(i)
          /\ Obtained(j) /\ seen[j] = epoch[UserOf(i)])
         => /\ chat_session'[i] = chat_session[j]
            /\ created' = created
            /\ calls'[i] = <<"send_message">>
            /\ user_data' = user_data]_vars

\* Two messages of one user handled one after the other with no reset
\* between: the first constructed the Session, the second reused it.
C3_Witness ==
    \E i \in Arrived : \E j \in Arrived :
        /\ i < j /\ SameEpoch(i, j)
        /\ pc[i] = "done" /\ pc[j] = "done"
        /\ Constructed(i)
        /\ calls[j] = <<"send_message">>
        /\ chat_session[j] = chat_session[i]

\* C4: new_chat run while the user has a Session leaves the user without
\* one; the next get_or_create_chat that returns, finding none, returns a
\* Session that chats.create constructed in that call, that no earlier call
\* returned and that is the one now stored.
C4_ResetThenFresh ==
    [][\A i \in Arrived :
         /\ (pc[i] = "new_chat" /\ pc'[i] # "new_chat"
             /\ user_data[UserOf(i)] # NoSession)
            => user_data'[UserOf(i)] = NoSession
         /\ (pc[i] = "try" /\ pc'[i] = "send_message"
             /\ user_data[UserOf(i)] = NoSession)
            => /\ chat_session'[i] \notin {chat_session[j] : j \in Arrived}
               /\ chat_session'[i] \notin 1..created
               /\ calls'[i] = <<"chats.create", "send_message">>
               /\ user_data'[UserOf(i)] = chat_session'[i]]_vars

\* A message, a reset and a message of one user: the reset removed the
\* first Session and the second message got a different one.
C4_Witness ==
    \E i \in Arrived : \E k \in Arrived : \E j \in Arrived :
        /\ i < k /\ k < j
        /\ UserOf(i) = UserOf(k) /\ UserOf(k) = UserOf(j)
        /\ Obtained(i) /\ pc[i] = "done"
        /\ Handler(k) = "new_chat" /\ replies[k] = <<ResetText(variant)>>
        /\ Obtained(j) /\ chat_session[j] # chat_session[i]
        /\ user_data[UserOf(j)] = chat_session[j]

\* C5: with ai_client None no typing indicator is emitted, no backend call
\* is made and the store stays empty; the only reply_text call of
\* handle_message is the not-configured text, and when the handler is done
\* that text is its one reply.
C5_NotConfigured ==
    ai_client = "None" =>
        /\ created = 0
        /\ \A u \in Users : user_data[u] = NoSession
        /\ \A i \in Arrived :
              /\ typing[i] = 0
              /\ calls[i] = << >>
              /\ Handler(i) = "handle_message" =>
                    /\ pc[i] \in {"queued", "handle_message", "reply_text",
                                  "done", "escaped"}
                    /\ pc[i] \in {"reply_text", "done", "escaped"} =>
                          attempts[i] = <<NotConfiguredText(variant)>>
                    /\ pc[i] = "done" =>
                          replies[i] = <<NotConfiguredText(variant)>>

\* A text message handled with ai_client None and answered.
C5_Witness ==
    \E i \in Arrived :
        /\ ai_client = "None"
        /\ Handler(i) = "handle_message"
        /\ pc[i] = "done"
        /\ replies[i] = <<NotConfiguredText(variant)>>


\* C6: when send_message raises APIError, the only reply_text call is the
\* APIError apology and it is the handler's one reply once done; the failed
\* exchange leaves the user's Session in the store, where it stays until a
\* new_chat, and a later message of that user with no reset between is
\* served on that same Session without constructing one.
C6_ApiErrorKeepsSession ==
    \A i \in Arrived :
        result[i] = "api_error" =>
            /\ attempts[i] = <<ApiErrorText(variant)>>
            /\ pc[i] = "done" => replies[i] = <<ApiErrorText(variant)>>
            /\ replies[i] \in {<< >>, <<ApiErrorText(variant)>>}
            /\ Obtained(i)
            /\ epoch[UserOf(i)] = seen[i] =>
                  user_data[UserOf(i)] = chat_session[i]
            /\ \A j \in Arrived :
                  (j > i /\ SameEpoch(i, j) /\ PastCreate(j))
                  => /\ chat_session[j] = chat_session[i]
                     /\ calls[j] = <<"send_message">>

\* A message whose send_message raised APIError got the apology, and the
\* user's next message was served on the same Session.
C6_Witness ==
    \E i \in Arrived : \E j \in Arrived :
        /\ j > i /\ SameEpoch(i, j)
        /\ result[i] = "api_error" /\ pc[i] = "done"
        /\ replies[i] = <<ApiErrorText(variant)>>
        /\ pc[j] = "done" /\ result[j] = "text"
        /\ chat_session[j] = chat_session[i]
        /\ user_data[UserOf(i)] = chat_session[i]

\* C7: with ai_client initialized, an exchange that fails with an exception
\* other than APIError (raised by chats.create, by send_message, or by the
\* reply_text of the try body) is answered with the generic text: that is
\* the only reply_text call its except clause makes and the handler's one
\* reply once done.  The APIError apology is passed to reply_text only when
\* chats.create or send_message raised APIError.
C7_GenericNotApology ==
    \A i \in Arrived :
        /\ result[i] \in {"error", "create_error"} =>
              /\ attempts[i] = <<GenericErrorText(variant)>>
              /\ replies[i] \in {<< >>, <<GenericErrorText(variant)>>}
              /\ pc[i] = "done" => replies[i] = <<GenericErrorText(variant)>>
        /\ (Len(attempts[i]) = 2 /\ Handler(i) = "handle_message") =>
              /\ attempts[i][2] = GenericErrorText(variant)
              /\ pc[i] = "done" => replies[i] = <<GenericErrorText(variant)>>
        /\ ApiErrorText(variant) \in Range(attempts[i]) =>
              result[i] \in {"api_error", "create_api_error"}

\* A message whose send_message raised an exception other than APIError,
\* answered with the generic text.
C7_Witness ==
    \E i \in Arrived :
        /\ ai_client = "Client"
        /\ result[i] = "error"
        /\ pc[i] = "done"
        /\ replies[i] = <<GenericErrorText(variant)>>

\* C8: a handle_message whose send_chat_action raised still obtains the
\* session, calls the backend and sends its one reply.
C8_TypingFailureHarmless ==
    \A i \in Arrived :
        (result[i] = "typing_raised" /\ pc[i] \in Finished) =>
            /\ "send_message" \in Range(calls[i])
            /\ Len(replies[i]) = 1

\* C9: a backend call that succeeds with an empty or absent text is answered
\* with the empty-response placeholder: that is the text passed to
\* reply_text, and no empty text and no error text is.
C9_EmptyPlaceholder ==
    \A i \in Arrived :
        result[i] = "empty" =>
            /\ attempts[i][1] = EmptyPlaceholder
            /\ EmptyText \notin Range(replies[i])
            /\ pc[i] = "done" => replies[i] = <<EmptyPlaceholder>>

\* C10: in the webhook variant every Update the endpoint has taken is
\* acknowledged in the step that enqueues it, so the acknowledged Updates
\* are all those delivered, whatever their handlers have done; and the
\* endpoint can take and acknowledge the next Update in every state, also
\* while a handler is in flight or the backend call is holding the loop.
C10_AckWithoutDispatcher ==
    variant = "webhook" =>
        /\ acked = Arrived
        /\ \A i \in Arrived : pc[i] # "none"
        /\ Len(updates) < Limit => ENABLED webhook

\* The endpoint has acknowledged an Update whose AI call is still running,
\* and a later Update that is still on the queue behind it.
C10_Witness ==
    \E i \in acked : \E j \in acked :
        /\ variant = "webhook"
        /\ pc[i] = "send_message" /\ busy = {i}
        /\ j > i /\ pc[j] = "queued"
        /\ Len(updates) < Limit


\* The handler of Update i takes the step that leaves position p.
Leaves(i, p) == pc[i] = p /\ pc'[i] # p

\* C11: new_chat calls reply_text once, with the reset-confirmation text if
\* the user had a Session when it ran, which it removes, and with the
\* already-new text if the user had none, leaving the store as it was; in
\* both cases no other user's entry changes, and running new_chat again on
\* the resulting store would change nothing.
C11_ResetReplies ==
    [][\A i \in Arrived :
         Leaves(i, "new_chat") =>
            /\ pc'[i] = "reply_text"
            /\ user_data[UserOf(i)] # NoSession =>
                  /\ attempts'[i] = <<ResetText(variant)>>
                  /\ user_data' = [user_data EXCEPT ![UserOf(i)] = NoSession]
            /\ user_data[UserOf(i)] = NoSession =>
                  /\ attempts'[i] = <<AlreadyNewText(variant)>>
                  /\ user_data' = user_data
            /\ new_chat_handler(variant, user_data', UserOf(i)).store = user_data'
            /\ new_chat_handler(variant, user_data', UserOf(i)).text =
                  AlreadyNewText(variant)]_vars

\* A message and two resets of one user: the first reset found the Session
\* and confirmed, the second found none and said so.
C11_Witness ==
    \E i \in Arrived : \E j \in Arrived : \E k \in Arrived :
        /\ i < j /\ j < k
        /\ UserOf(i) = UserOf(j) /\ UserOf(j) = UserOf(k)
        /\ Obtained(i)
        /\ Handler(j) = "new_chat" /\ replies[j] = <<ResetText(variant)>>
        /\ Handler(k) = "new_chat" /\ replies[k] = <<AlreadyNewText(variant)>>
        /\ user_data[UserOf(k)] = NoSession

\* C12: in the polling variant no Update that waited on the platform when
\* the process started is ever put on the queue or dispatched.
C12_PendingDropped ==
    \A i \in Arrived : variant = "polling" => ~updates[i].old


\* Some step on behalf of Update j: its dispatch or a step of its handler.
StepOf(j) ==
    \/ /\ update_queue # << >>
       /\ Head(update_queue) = j
       /\ process_update
    \/ start(j) \/ new_chat(j) \/ handle_message(j)
    \/ send_chat_action(j) \/ try_body(j)
    \/ send_message(j) \/ reply_text(j)

\* C13: while the send_message of one user's Update has not returned, every
\* Update of another user that has arrived and is not yet handled can take
\* its next step (be dispatched, or go on in its handler).
C13_OtherUsersProgress ==
    \A i \in Arrived : \A j \in Arrived :
        (/\ pc[i] = "send_message"
         /\ UserOf(j) # UserOf(i)
         /\ pc[j] \notin Finished
         /\ \A k \in Arrived : k < j => pc[k] # "queued")
        => ENABLED StepOf(j)


\* C14: an Update that is an unrecognized command or carries no text is
\* bound to no handler: taking it off the queue is its only step, which
\* leaves the session store and the count of constructed Chats unchanged,
\* and no reply_text call, reply, typing indicator or backend call is ever
\* made for it.
C14_IgnoredSilently ==
    [][\A i \in 1..Len(updates') :
         updates'[i].kind \in {"command", "non_text"} =>
            /\ pc'[i] \in {"queued", "ignored"}
            /\ attempts'[i] = << >> /\ replies'[i] = << >>
            /\ typing'[i] = 0 /\ calls'[i] = << >>
            /\ pc'[i] # pc[i] =>
                  /\ user_data' = user_data
                  /\ created' = created
                  /\ busy' = busy]_vars

\* An unrecognized command and an event without text, both taken off the
\* queue with no reply, while the user's Session is in the store.
C14_Witness ==
    \E i \in Arrived : \E j \in Arrived : \E k \in Arrived :
        /\ i < j /\ j < k
        /\ Obtained(i) /\ user_data[UserOf(i)] = chat_session[i]
        /\ UserOf(j) = UserOf(i) /\ UserOf(k) = UserOf(i)
        /\ updates[j].kind = "command" /\ pc[j] = "ignored"
        /\ updates[k].kind = "non_text" /\ pc[k] = "ignored"
        /\ replies[j] = << >> /\ replies[k] = << >>


\* C15: in the webhook variant started by its entrypoint, every Update the
\* endpoint has acknowledged is eventually handled: its handler has run to
\* its end, or it matched no handler.
C15_AcknowledgedIsHandled ==
    \A i \in Ids :
        (variant = "webhook" /\ i \in acked) ~> (pc[i] \in Finished)


\* C16: of two text messages of one user, the earlier to arrive is the
\* earlier sent to the backend: when the later one's send_message has been
\* called, the earlier one's handler has ended, so its backend call, if it
\* made one, and its reply, if it sent one, came before.
C16_PerUserOrder ==
    \A i \in Arrived : \A j \in Arrived :
        (/\ i < j /\ UserOf(i) = UserOf(j)
         /\ Handler(i) = "handle_message" /\ Handler(j) = "handle_message"
         /\ "send_message" \in Range(calls[j]))
        => pc[i] \in Finished

\* Two text messages of one user: the first has been answered and the
\* second is in its backend call on the same Session.
C16_Witness ==
    \E i \in Arrived : \E j \in Arrived :
        /\ i < j /\ UserOf(i) = UserOf(j)
        /\ "send_message" \in Range(calls[i])
        /\ pc[i] = "done" /\ replies[i] = <<ModelText>>
        /\ pc[j] = "send_message"
        /\ chat_session[j] = chat_session[i]


\* C17: with ai_client initialized, no exception leaves a handle_message
\* called with a message to answer: whatever raised during the exchange,
\* the handler returns normally.
C17_NothingEscapes ==
    \A i \in Arrived :
        (/\ ai_client = "Client" /\ Handler(i) = "handle_message"
         /\ updates[i].message = "Message")
        => pc[i] # "escaped"

\* C18: the start handler calls reply_text once, with a welcome formatted
\* with the user's first name, and that is its one reply when it is done; it
\* emits no typing indicator and makes no backend call, and its steps leave
\* the session store and the count of constructed Chats unchanged, whether
\* or not the user has a Session and whatever ai_client is.
C18_StartOnlyGreets ==
    [][\A i \in 1..Len(updates') :
         updates'[i].kind = "start" =>
            /\ pc'[i] \in {"queued", "start", "reply_text", "done", "escaped"}
            /\ typing'[i] = 0 /\ calls'[i] = << >>
            /\ chat_session'[i] = NoSession
            /\ pc'[i] \in {"reply_text", "done", "escaped"} =>
                  /\ Len(attempts'[i]) = 1
                  /\ attempts'[i][1].name = updates'[i].first_name
                  /\ attempts'[i][1].msg = HelloText(variant, 0).msg
            /\ pc'[i] = "done" => replies'[i] = attempts'[i]
            /\ pc'[i] # "done" => replies'[i] = << >>
            /\ pc'[i] # pc[i] =>
                  /\ user_data' = user_data
                  /\ created' = created]_vars

\* A user who has a Session sends /start and is greeted by name; the Session
\* is still the stored one.
C18_Witness ==
    \E i \in Arrived : \E j \in Arrived :
        /\ i < j /\ UserOf(i) = UserOf(j)
        /\ Obtained(i) /\ user_data[UserOf(i)] = chat_session[i]
        /\ updates[j].kind = "start" /\ pc[j] = "done"
        /\ Len(replies[j]) = 1
        /\ replies[j][1].name = updates[j].first_name


\* C19: sessions are isolated per user.  The stored Session of a user B
\* changes only in a step of one of B's own Updates (its new_chat handler or
\* the get_or_create_chat of its message), never in a handler run for another
\* user; and a stored Session of B is always one constructed by a message of
\* B since B's last reset, the same one every message of B since that reset
\* has obtained.
C19_SessionsIsolated ==
    [][\A b \in Users :
         /\ user_data'[b] # user_data[b] =>
               \E i \in Arrived :
                   /\ UserOf(i) = b
                   /\ Leaves(i, "new_chat") \/ Leaves(i, "try")
         /\ user_data'[b] # NoSession =>
               /\ \E i \in 1..Len(updates') :
                     /\ updates'[i].user = b
                     /\ updates'[i].kind = "text"
                     /\ "chats.create" \in Range(calls'[i])
                     /\ chat_session'[i] = user_data'[b]
                     /\ seen'[i] = epoch'[b]
               /\ \A j \in 1..Len(updates') :
                     (/\ updates'[j].user = b
                      /\ chat_session'[j] # NoSession
                      /\ seen'[j] = epoch'[b])
                     => chat_session'[j] = user_data'[b]]_vars

\* Two users hold Sessions; the first resets theirs, and the second's stored
\* Session is still the one their own message constructed.
C19_Witness ==
    \E i \in Arrived : \E j \in Arrived : \E k \in Arrived :
        /\ i < j /\ j < k
        /\ UserOf(i) # UserOf(j) /\ UserOf(k) = UserOf(i)
        /\ Constructed(i) /\ Constructed(j)
        /\ updates[k].kind = "new_chat" /\ pc[k] = "done"
        /\ replies[k] = <<ResetText(variant)>>
        /\ user_data[UserOf(i)] = NoSession
        /\ user_data[UserOf(j)] = chat_session[j]


\* The Updates whose chats.create raised.
CreateFailed(i) == result[i] \in {"create_api_error", "create_error"}

\* C20: when chats.create raises inside get_or_create_chat, the step leaves
\* the store and the count of constructed Chats unchanged and the user still
\* has no entry; handle_message calls reply_text once, with the error text of
\* the matching except clause, and that is its one reply when it is done; and
\* the next message of the same user calls chats.create again.
C20_FailedCreateStoresNothing ==
    [][\A i \in Arrived :
         CreateFailed(i)' =>
            /\ chat_session'[i] = NoSession
            /\ calls'[i] = <<"chats.create">>
            /\ attempts'[i] =
                  <<IF result'[i] = "create_api_error"
                    THEN ApiErrorText(variant) ELSE GenericErrorText(variant)>>
            /\ pc'[i] = "done" => replies'[i] = attempts'[i]
            /\ pc'[i] # "done" => replies'[i] = << >>
            /\ ~CreateFailed(i) =>
                  /\ user_data' = user_data
                  /\ created' = created
                  /\ user_data'[UserOf(i)] = NoSession
            /\ \A j \in Arrived :
                  (/\ i < j /\ UserOf(j) = UserOf(i)
                   /\ \A k \in Arrived :
                         (i < k /\ k < j /\ UserOf(k) = UserOf(i))
                         => ~PastCreate(k)'
                   /\ PastCreate(j)')
                  => "chats.create" \in Range(calls'[j])]_vars

\* A construction failed and was answered with the error text; the user's
\* next message constructed a Session and was answered by the model.
C20_Witness ==
    \E i \in Arrived : \E j \in Arrived :
        /\ i < j /\ UserOf(i) = UserOf(j)
        /\ CreateFailed(i) /\ pc[i] = "done"
        /\ replies[i] \in {<<ApiErrorText(variant)>>, <<GenericErrorText(variant)>>}
        /\ \A k \in Arrived : (i < k /\ k < j) => UserOf(k) # UserOf(i)
        /\ Constructed(j) /\ pc[j] = "done" /\ replies[j] = <<ModelText>>
        /\ user_data[UserOf(j)] = chat_session[j]

====
